---- MODULE Spec2Model ----
(***************************************************************************)
(* Model of pymodbus/client/async.py: the Twisted stream client protocol   *)
(* ModbusClientProtocol, its registry of pending Deferreds (_requests),    *)
(* its _connected flag, and the process-wide transaction manager _manager. *)
(* Spec is the stream session; UdpSpec is the datagram session             *)
(* ModbusUdpClientProtocol, which draws from the same _manager.            *)
(*                                                                         *)
(* Every handler runs to completion on the reactor thread, so each handler *)
(* is one atomic action.                                                   *)
(***************************************************************************)
EXTENDS Integers, Sequences, FiniteSets, TLC

(* ------------------------------------------------------------------ *)
(* Bounds of the model                                                *)
(* ------------------------------------------------------------------ *)
\* number of execute calls made on the session
MaxExec == 3
\* number of times other sessions draw identifiers from the shared _manager
MaxOther == 1

(* ------------------------------------------------------------------ *)
(* Values                                                             *)
(* ------------------------------------------------------------------ *)
None == "None"

\* the result slot of a Deferred that has not fired
NoResult == [kind |-> "none"]

\* a reply object the framer decoded; truthy is its truth value in Python
\* (None and empty objects are falsy)
Reply(t) == [kind |-> "reply", truthy |-> TRUE, transaction_id |-> t]

NoReply == [kind |-> "reply", truthy |-> FALSE, transaction_id |-> 0]

\* the transaction identifier field is 16 bits wide
TidModulus == 65536

\* _manager's counter when the module is loaded: the first identifier handed
\* out is 1
InitialTid == 0

\* how many identifiers other sessions take between two events of this one
OtherBursts == {1, TidModulus - 1}

\* the reason argument Twisted passes to connectionLost
Reasons == {"ConnectionDone", "ConnectionAborted"}

\* a transaction identifier no request of the model is ever given
SpuriousTid == 32768

VARIABLES
    tid,         \* _manager: the last transaction identifier handed out
    connected,   \* self._connected
    requests,    \* self._requests: dict  transaction id -> index into handles
    handles,     \* handles[i]: what the i-th execute call gave its caller
    issued,      \* issued[i]: request.transaction_id set by the i-th execute call
    transport,   \* the calls made to self.transport.write, in order
    wrapped,     \* the manager's counter has wrapped since the first execute
    others,      \* number of draws by other sessions so far
    bystanders,  \* the handles that were in the registry while a reply
                 \* resolved another handle
    udp,         \* the ModbusUdpClientProtocol object and the calls made on it
    ret          \* the handler that ran last: its name, the exception it
                 \* raised, its argument, and the handle it fired or made

vars == <<tid, connected, requests, handles, issued, transport, wrapped, others,
          bystanders, udp, ret>>

(* ------------------------------------------------------------------ *)
(* dict helpers                                                       *)
(* ------------------------------------------------------------------ *)
EmptyDict == [k \in {} |-> 0]

\* d[k] = v
DictSet(d, k, v) == [x \in (DOMAIN d) \cup {k} |-> IF x = k THEN v ELSE d[x]]

\* the dict left by d.pop(k)
DictPop(d, k) == [x \in (DOMAIN d) \ {k} |-> d[x]]

(* ------------------------------------------------------------------ *)
(* twisted.internet.defer.Deferred, as far as the client uses it      *)
(* ------------------------------------------------------------------ *)
\* defer.Deferred(): not yet fired
Deferred == [state |-> "pending", result |-> NoResult, fired |-> 0]

\* d.callback(reply)
callback(d, reply) == [state |-> "resolved", result |-> reply, fired |-> d.fired + 1]

\* d.errback(failure)
errback(d, failure) == [state |-> "failed", result |-> failure, fired |-> d.fired + 1]

\* defer.fail(failure): a Deferred that has already failed
fail(failure) == errback(Deferred, failure)

\* Failure(ConnectionException(msg)): the exception type and its arguments
Failure(exc, msg) == [kind |-> "failure", exc |-> exc, args |-> <<msg>>]

NotConnectedFailure == Failure("ConnectionException", "Client is not connected")

\* variant: the failure is built from the reason of the disconnect
ConnectionLostFailure_withReason(reason) ==
    [kind |-> "failure", exc |-> "ConnectionException",
     args |-> <<"Connection lost during request", reason>>]

ConnectionLostFailure(reason) ==
    Failure("ConnectionException", "Connection lost during request")

\* what the caller of execute holds when transport.write raised: no Deferred
Raised(exc) == [state |-> "raised", result |-> [kind |-> "exception", exc |-> exc], fired |-> 0]

(* ------------------------------------------------------------------ *)
(* _manager = ModbusTransactionManager()                              *)
(* ------------------------------------------------------------------ *)
\* _manager.getNextTID(): the next identifier, wrapping at the field width
getNextTID(t) == (t + 1) % TidModulus

\* n successive getNextTID calls
getNextTIDs(t, n) == (t + n) % TidModulus

(* ------------------------------------------------------------------ *)
(* ModbusUdpClientProtocol: values                                    *)
(* ------------------------------------------------------------------ *)
\* no ModbusUdpClientProtocol object exists.  made: __init__ has returned;
\* requests: self._requests, a deque, as the sequence of its items;
\* handles, issued, writes: per execute call, what the caller got, the
\* identifier of the request and the call to transport.write
NoUdpSession ==
    [made |-> FALSE, requests |-> <<>>, handles |-> <<>>, issued |-> <<>>,
     writes |-> <<>>]

\* the (host, port) a datagram comes from
Addrs == {"server", "stranger"}

(* ------------------------------------------------------------------ *)
(* ModbusClientProtocol                                               *)
(* ------------------------------------------------------------------ *)
Init ==
    /\ tid = InitialTid
    /\ connected = FALSE
    /\ requests = EmptyDict
    /\ handles = <<>>
    /\ issued = <<>>
    /\ transport = <<>>
    /\ wrapped = FALSE
    /\ others = 0
    /\ bystanders = {}
    /\ udp = NoUdpSession
    /\ ret = [op |-> "init", raised |-> None, arg |-> None, h |-> 0]

connectionMade ==
    /\ connected' = TRUE
    /\ ret' = [op |-> "connectionMade", raised |-> None, arg |-> None, h |-> 0]
    /\ UNCHANGED <<tid, requests, handles, issued, transport, wrapped, others,
                   bystanders, udp>>

\* for key in self._requests: self._requests.pop(key).errback(...)
\* The first pop changes the size of the dict being iterated, so the next step
\* of the iterator raises RuntimeError: exactly one entry, the first in
\* iteration order, is popped and failed.  An empty dict is iterated without
\* error.  Which key comes first is up to the dict.
connectionLost(reason) ==
    /\ connected' = FALSE
    /\ IF DOMAIN requests = {}
         THEN /\ UNCHANGED <<requests, handles>>
              /\ ret' = [op |-> "connectionLost", raised |-> None, arg |-> reason,
                         h |-> 0]
         ELSE \E key \in DOMAIN requests :
                /\ requests' = DictPop(requests, key)
                /\ handles' = [handles EXCEPT ![requests[key]] =
                                  errback(@, ConnectionLostFailure(reason))]
                /\ ret' = [op |-> "connectionLost", raised |-> "RuntimeError",
                           arg |-> reason, h |-> requests[key]]
    /\ UNCHANGED <<tid, issued, transport, wrapped, others, bystanders, udp>>

\* variant: the Deferred is always registered, _connected is not looked at
_buildResponse_noCheck(conn, reqs, t, h) ==
    [d |-> Deferred, requests |-> DictSet(reqs, t, h)]

\* variant: the registry is replaced by a dict holding only the new entry
_buildResponse_reset(conn, reqs, t, h) ==
    IF ~conn
      THEN [d |-> fail(NotConnectedFailure), requests |-> reqs]
      ELSE [d |-> Deferred, requests |-> DictSet(EmptyDict, t, h)]

\* _buildResponse(tid): the Deferred returned and the registry afterwards;
\* h is the identity of the new Deferred object
_buildResponse(conn, reqs, t, h) ==
    IF ~conn
      THEN [d |-> fail(NotConnectedFailure), requests |-> reqs]
      ELSE [d |-> Deferred, requests |-> DictSet(reqs, t, h)]

\* variant: the request keeps the identifier the manager handed out last
executeResult_noAlloc(t0, conn, reqs, h, writeOk) ==
    LET t == t0 IN
    IF ~writeOk
      THEN [tid |-> t, write |-> [packet |-> t, ok |-> FALSE],
            d |-> Raised("WriteError"), requests |-> reqs, raised |-> "WriteError"]
      ELSE LET r == _buildResponse(conn, reqs, t, h) IN
           [tid |-> t, write |-> [packet |-> t, ok |-> TRUE],
            d |-> r.d, requests |-> r.requests, raised |-> None]

\* variant: the Deferred is registered before the packet is written
executeResult_registerFirst(t0, conn, reqs, h, writeOk) ==
    LET t == getNextTID(t0)
        r == _buildResponse(conn, reqs, t, h) IN
    IF ~writeOk
      THEN [tid |-> t, write |-> [packet |-> t, ok |-> FALSE],
            d |-> Raised("WriteError"), requests |-> r.requests,
            raised |-> "WriteError"]
      ELSE [tid |-> t, write |-> [packet |-> t, ok |-> TRUE],
            d |-> r.d, requests |-> r.requests, raised |-> None]

\* variant: the packet is built before the new identifier is assigned
executeResult_encodeFirst(t0, conn, reqs, h, writeOk) ==
    LET t == getNextTID(t0) IN
    IF ~writeOk
      THEN [tid |-> t, write |-> [packet |-> t0, ok |-> FALSE],
            d |-> Raised("WriteError"), requests |-> reqs, raised |-> "WriteError"]
      ELSE LET r == _buildResponse(conn, reqs, t, h) IN
           [tid |-> t, write |-> [packet |-> t0, ok |-> TRUE],
            d |-> r.d, requests |-> r.requests, raised |-> None]

\* execute(request): writeOk is whether transport.write returns normally.
\* The result is the state the call leaves and what the caller gets.
executeResult(t0, conn, reqs, h, writeOk) ==
    LET t == getNextTID(t0) IN
    IF ~writeOk
      THEN [tid |-> t, write |-> [packet |-> t, ok |-> FALSE],
            d |-> Raised("WriteError"), requests |-> reqs, raised |-> "WriteError"]
      ELSE LET r == _buildResponse(conn, reqs, t, h) IN
           [tid |-> t, write |-> [packet |-> t, ok |-> TRUE],
            d |-> r.d, requests |-> r.requests, raised |-> None]

execute(writeOk) ==
    /\ Len(handles) < MaxExec
    /\ LET r == executeResult(tid, connected, requests, Len(handles) + 1, writeOk) IN
         /\ tid' = r.tid
         /\ issued' = Append(issued, r.tid)
         /\ transport' = Append(transport, r.write)
         /\ handles' = Append(handles, r.d)
         /\ requests' = r.requests
         /\ wrapped' = (wrapped \/ (issued # <<>> /\ r.tid < tid))
         /\ ret' = [op |-> "execute", raised |-> r.raised, arg |-> r.tid,
                   h |-> Len(handles) + 1]
    /\ UNCHANGED <<connected, others, bystanders, udp>>

\* variant: the handler is looked up with get, the entry stays in the dict
handleResponseResult_get(reqs, hs, reply) ==
    IF DOMAIN reqs # {} /\ reply.truthy
      THEN LET t == reply.transaction_id IN
           IF t \in DOMAIN reqs
             THEN [requests |-> reqs,
                   handles |-> [hs EXCEPT ![reqs[t]] = callback(@, reply)],
                   raised |-> None, h |-> reqs[t]]
             ELSE [requests |-> reqs, handles |-> hs, raised |-> None, h |-> 0]
      ELSE [requests |-> reqs, handles |-> hs, raised |-> None, h |-> 0]

\* variant: pop without a default, a missing key raises KeyError
handleResponseResult_popRaises(reqs, hs, reply) ==
    IF DOMAIN reqs # {} /\ reply.truthy
      THEN LET t == reply.transaction_id IN
           IF t \in DOMAIN reqs
             THEN [requests |-> DictPop(reqs, t),
                   handles |-> [hs EXCEPT ![reqs[t]] = callback(@, reply)],
                   raised |-> None, h |-> reqs[t]]
             ELSE [requests |-> reqs, handles |-> hs, raised |-> "KeyError",
                   h |-> 0]
      ELSE [requests |-> reqs, handles |-> hs, raised |-> None, h |-> 0]

\* variant: a reply that matches no entry is given to the oldest entry
handleResponseResult_popAny(reqs, hs, reply) ==
    IF DOMAIN reqs # {} /\ reply.truthy
      THEN LET t == IF reply.transaction_id \in DOMAIN reqs
                      THEN reply.transaction_id
                      ELSE CHOOSE k \in DOMAIN reqs :
                              \A k2 \in DOMAIN reqs : reqs[k] <= reqs[k2] IN
           [requests |-> DictPop(reqs, t),
            handles |-> [hs EXCEPT ![reqs[t]] = callback(@, reply)],
            raised |-> None, h |-> reqs[t]]
      ELSE [requests |-> reqs, handles |-> hs, raised |-> None, h |-> 0]

\* variant: the reply is not tested before its transaction_id is read
handleResponseResult_noReplyCheck(reqs, hs, reply) ==
    IF DOMAIN reqs # {}
      THEN IF ~reply.truthy
             THEN [requests |-> reqs, handles |-> hs, raised |-> "AttributeError",
                   h |-> 0]
             ELSE LET t == reply.transaction_id IN
                  IF t \in DOMAIN reqs
                    THEN [requests |-> DictPop(reqs, t),
                          handles |-> [hs EXCEPT ![reqs[t]] = callback(@, reply)],
                          raised |-> None, h |-> reqs[t]]
                    ELSE [requests |-> reqs, handles |-> hs, raised |-> None,
                          h |-> 0]
      ELSE [requests |-> reqs, handles |-> hs, raised |-> None, h |-> 0]

\* _handleResponse(reply)
handleResponseResult(reqs, hs, reply) ==
    IF DOMAIN reqs # {} /\ reply.truthy
      THEN LET t == reply.transaction_id IN
           IF t \in DOMAIN reqs
             THEN [requests |-> DictPop(reqs, t),
                   handles |-> [hs EXCEPT ![reqs[t]] = callback(@, reply)],
                   raised |-> None, h |-> reqs[t]]
             ELSE [requests |-> reqs, handles |-> hs, raised |-> None, h |-> 0]
      ELSE [requests |-> reqs, handles |-> hs, raised |-> None, h |-> 0]

\* the replies the framer can hand to the dispatcher
Replies ==
    {NoReply} \cup {Reply(t) :
                       t \in {issued[i] : i \in DOMAIN issued} \cup {SpuriousTid}}

_handleResponse(reply) ==
    /\ LET r == handleResponseResult(requests, handles, reply) IN
         /\ requests' = r.requests
         /\ handles' = r.handles
         /\ ret' = [op |-> "_handleResponse", raised |-> r.raised, arg |-> reply,
                   h |-> r.h]
         /\ bystanders' = IF r.h # 0
                             THEN bystanders \cup
                                  {r.requests[k] : k \in DOMAIN r.requests}
                             ELSE bystanders
    /\ UNCHANGED <<tid, connected, issued, transport, wrapped, others, udp>>

\* other sessions of the process call execute n times: each call draws one
\* identifier from the shared _manager
otherExecute(n) ==
    /\ others < MaxOther
    /\ others' = others + 1
    /\ tid' = getNextTIDs(tid, n)
    /\ wrapped' = (wrapped \/ (issued # <<>> /\ tid + n >= TidModulus))
    /\ ret' = [op |-> "otherExecute", raised |-> None, arg |-> n, h |-> 0]
    /\ UNCHANGED <<connected, requests, handles, issued, transport, bystanders,
                   udp>>

Next ==
    \/ connectionMade
    \/ \E reason \in Reasons : connectionLost(reason)
    \/ \E writeOk \in BOOLEAN : execute(writeOk)
    \/ \E reply \in Replies : _handleResponse(reply)
    \/ \E n \in OtherBursts : otherExecute(n)

Spec == Init /\ [][Next]_vars


(* ------------------------------------------------------------------ *)
(* ModbusUdpClientProtocol                                            *)
(* ------------------------------------------------------------------ *)
\* q[i] = v on a collections.deque: i must index an existing item
dequeSetItem(q, i, v) ==
    IF i >= 0 /\ i < Len(q)
      THEN [raised |-> None, q |-> [q EXCEPT ![i + 1] = v]]
      ELSE IF i < 0 /\ 0 - i <= Len(q)
             THEN [raised |-> None, q |-> [q EXCEPT ![Len(q) + i + 1] = v]]
             ELSE [raised |-> "IndexError", q |-> q]

\* __init__: self._requests = deque().  The module does not import deque, so
\* the name resolves only if the embedding program has put it into the
\* module's namespace (nameBound); otherwise the constructor raises NameError
\* and no object is made.
udpInit(nameBound) ==
    /\ ~udp.made
    /\ IF nameBound
         THEN /\ udp' = [udp EXCEPT !.made = TRUE, !.requests = <<>>]
              /\ ret' = [op |-> "udp.__init__", raised |-> None, arg |-> None,
                         h |-> 0]
         ELSE /\ udp' = udp
              /\ ret' = [op |-> "udp.__init__", raised |-> "NameError",
                         arg |-> None, h |-> 0]
    /\ UNCHANGED <<tid, connected, requests, handles, issued, transport, wrapped,
                   others, bystanders>>

\* _buildResponse(tid) of the datagram session: self._requests[tid] = d
udpBuildResponse(q, t, h) ==
    LET r == dequeSetItem(q, t, h) IN
    IF r.raised # None
      THEN [d |-> Raised(r.raised), requests |-> q, raised |-> r.raised]
      ELSE [d |-> Deferred, requests |-> r.q, raised |-> None]

\* execute(request) of the datagram session
udpExecuteResult(t0, q, h, writeOk) ==
    LET t == getNextTID(t0) IN
    IF ~writeOk
      THEN [tid |-> t, write |-> [packet |-> t, ok |-> FALSE],
            d |-> Raised("WriteError"), requests |-> q, raised |-> "WriteError"]
      ELSE LET r == udpBuildResponse(q, t, h) IN
           [tid |-> t, write |-> [packet |-> t, ok |-> TRUE],
            d |-> r.d, requests |-> r.requests, raised |-> r.raised]

udpExecute(writeOk) ==
    /\ udp.made
    /\ Len(udp.handles) < MaxExec
    /\ LET r == udpExecuteResult(tid, udp.requests, Len(udp.handles) + 1, writeOk) IN
         /\ tid' = r.tid
         /\ udp' = [udp EXCEPT !.requests = r.requests,
                               !.handles = Append(@, r.d),
                               !.issued = Append(@, r.tid),
                               !.writes = Append(@, r.write)]
         /\ ret' = [op |-> "udp.execute", raised |-> r.raised, arg |-> r.tid,
                   h |-> Len(udp.handles) + 1]
    /\ UNCHANGED <<connected, requests, handles, issued, transport, wrapped,
                   others, bystanders>>

\* _handleResponse(reply) of the datagram session: past the test of line 181
\* it reads self.requests, an attribute the object does not have
udpHandleResponseResult(q, hs, reply) ==
    IF Len(q) > 0 /\ reply.truthy
      THEN [requests |-> q, handles |-> hs, raised |-> "AttributeError", h |-> 0]
      ELSE [requests |-> q, handles |-> hs, raised |-> None, h |-> 0]

\* the replies the framer can decode from a datagram
UdpReplies ==
    {NoReply} \cup {Reply(t) :
                       t \in {udp.issued[i] : i \in DOMAIN udp.issued}
                                \cup {SpuriousTid}}

\* datagramReceived(data, (host, port)): the address is logged, the decoded
\* reply goes to _handleResponse
datagramReceived(reply, addr) ==
    /\ udp.made
    /\ LET r == udpHandleResponseResult(udp.requests, udp.handles, reply) IN
         /\ udp' = [udp EXCEPT !.requests = r.requests, !.handles = r.handles]
         /\ ret' = [op |-> "udp.datagramReceived", raised |-> r.raised,
                   arg |-> reply, h |-> r.h, addr |-> addr]
    /\ UNCHANGED <<tid, connected, requests, handles, issued, transport, wrapped,
                   others, bystanders>>

UdpNext ==
    \/ \E nameBound \in BOOLEAN : udpInit(nameBound)
    \/ \E writeOk \in BOOLEAN : udpExecute(writeOk)
    \/ \E reply \in UdpReplies : \E addr \in Addrs : datagramReceived(reply, addr)

UdpSpec == Init /\ [][UdpNext]_vars

(* ------------------------------------------------------------------ *)
(* Properties                                                         *)
(* ------------------------------------------------------------------ *)
\* the handles the registry holds
Tracked == {requests[k] : k \in DOMAIN requests}

\* the failure connectionLost hands to errback
LostFailure == Failure("ConnectionException", "Connection lost during request")

\* C1: one connectionLost event fails every handle that was in the registry
\* with the connection-lost error and leaves the registry empty.
C1_DisconnectFailsAll ==
    [][ret'.op = "connectionLost" =>
          /\ DOMAIN requests' = {}
          /\ \A k \in DOMAIN requests :
                /\ handles'[requests[k]].state = "failed"
                /\ handles'[requests[k]].result = LostFailure]_vars

\* C2: whenever the connected flag is false the registry is empty.
C2_DisconnectedImpliesEmpty == (~connected) => DOMAIN requests = {}

\* C3: execute on a session that is not connected returns a handle that has
\* already failed with the not-connected error, and makes no call to
\* transport.write (stated for the calls in which nothing raised).
C3_NotConnectedNoWrite ==
    [][(ret'.op = "execute" /\ ~connected /\ ret'.raised = None) =>
          /\ handles'[ret'.h] = fail(NotConnectedFailure)
          /\ transport' = transport]_vars

\* C4: a handle gets at most one terminal resolution: it is fired at most
\* once, and once it is resolved or failed no later event changes it.
C4_AtMostOneResolution ==
    [][\A h \in DOMAIN handles :
          /\ handles'[h].fired <= 1
          /\ handles[h].state # "pending" => handles'[h] = handles[h]]_vars

\* a reply arrived for a handle that an earlier disconnect had failed, next
\* to a handle that a reply had resolved
C4_Witness ==
    /\ ret.op = "_handleResponse"
    /\ ret.arg.truthy
    /\ \E h \in DOMAIN handles :
          /\ issued[h] = ret.arg.transaction_id
          /\ handles[h].state = "failed"
          /\ handles[h].result = LostFailure
    /\ \E h \in DOMAIN handles : handles[h].state = "resolved"

\* C5: every handle that is still pending is tracked in the registry under
\* the identifier of its request, and every handle in the registry is pending.
C5_RegistryIffPending ==
    /\ \A h \in DOMAIN handles :
          handles[h].state = "pending" =>
              (issued[h] \in DOMAIN requests /\ requests[issued[h]] = h)
    /\ \A k \in DOMAIN requests :
          /\ handles[requests[k]].state = "pending"
          /\ issued[requests[k]] = k
          /\ transport[requests[k]].ok

\* h stayed in the registry when a reply resolved another handle, and is
\* still there
Bystander(h) == h \in Tracked /\ h \in bystanders

\* C6: a reply with identifier X, dispatched while X and other identifiers are
\* in the registry, resolves exactly the handle registered under X with that
\* reply and removes it, the other handles stay as they are and stay in the
\* registry; a later disconnect fails those other handles with the
\* connection-lost error.
C6_ReplyResolvesOnlyItsHandle ==
    [][/\ (/\ ret'.op = "_handleResponse"
           /\ ret'.arg.truthy
           /\ ret'.arg.transaction_id \in DOMAIN requests) =>
              LET X == ret'.arg.transaction_id IN
              /\ handles'[requests[X]] = callback(Deferred, ret'.arg)
              /\ requests' = DictPop(requests, X)
              /\ \A h \in DOMAIN handles :
                    h # requests[X] => handles'[h] = handles[h]
       /\ ret'.op = "connectionLost" =>
              \A h \in DOMAIN handles :
                 Bystander(h) => /\ handles'[h].state = "failed"
                                 /\ handles'[h].result = LostFailure]_vars

\* C7: a reply whose identifier is not in the registry raises nothing and
\* changes neither the registry nor any handle.
C7_UnsolicitedReplyIgnored ==
    [][(/\ ret'.op = "_handleResponse"
        /\ ret'.arg.truthy
        /\ ret'.arg.transaction_id \notin DOMAIN requests) =>
           /\ ret'.raised = None
           /\ requests' = requests
           /\ handles' = handles]_vars

\* a reply for an identifier already answered was dispatched while other
\* requests were pending
C7_Witness ==
    /\ ret.op = "_handleResponse"
    /\ ret.arg.truthy
    /\ ret.h = 0
    /\ DOMAIN requests # {}
    /\ \E h \in DOMAIN handles :
          /\ issued[h] = ret.arg.transaction_id
          /\ handles[h].state = "resolved"

\* C8: as long as the manager's counter has not wrapped, the identifiers given
\* to the requests of the session are pairwise distinct.
C8_DistinctTids ==
    (~wrapped) =>
        \A i, j \in DOMAIN issued : i # j => issued[i] # issued[j]

\* three requests of the session, with draws of other sessions in between
C8_Witness ==
    /\ ~wrapped
    /\ Len(issued) = MaxExec
    /\ \E i \in 1..(Len(issued) - 1) : issued[i + 1] > issued[i] + 1

\* C9 as stated: the failure delivered by connectionLost(reason) carries reason.
C9_FailureCarriesReason ==
    (ret.op = "connectionLost" /\ ret.h # 0) =>
        \E i \in DOMAIN handles[ret.h].result.args :
            handles[ret.h].result.args[i] = ret.arg

\* C9 amended: the failure delivered by connectionLost(reason) is the
\* ConnectionException 'Connection lost during request' whatever the reason,
\* and every failed handle holds either that failure or the not-connected one.
C9_FailureIsFixed ==
    /\ (ret.op = "connectionLost" /\ ret.h # 0) =>
           handles[ret.h].result = LostFailure
    /\ \A h \in DOMAIN handles :
          handles[h].state = "failed" =>
              handles[h].result \in
                 {LostFailure,
                  Failure("ConnectionException", "Client is not connected")}

\* a disconnect with one reason failed a handle after an earlier disconnect
\* had failed another
C9_Witness ==
    /\ ret.op = "connectionLost"
    /\ ret.arg = "ConnectionAborted"
    /\ ret.h # 0
    /\ \E h \in DOMAIN handles :
          h # ret.h /\ handles[h].state = "failed" /\ handles[h].result = LostFailure

\* C10: when transport.write fails in execute on a connected session, the
\* error reaches the caller of that call, write was called once, and the
\* registry is as before the call.
C10_WriteFailureSurfaced ==
    [][(/\ ret'.op = "execute"
        /\ connected
        /\ ~transport'[Len(transport')].ok) =>
           /\ ret'.raised = "WriteError"
           /\ handles'[ret'.h].state = "raised"
           /\ Len(transport') = Len(transport) + 1
           /\ requests' = requests]_vars

\* a write failed on a connected session that had a pending request
C10_Witness ==
    /\ ret.op = "execute"
    /\ ret.raised = "WriteError"
    /\ connected
    /\ DOMAIN requests # {}

\* C13: every identifier in the registry belongs to a request of the session
\* whose packet, carrying that identifier, transport.write has accepted.
C13_RegisteredAfterWrite ==
    \A k \in DOMAIN requests :
        /\ issued[requests[k]] = k
        /\ transport[requests[k]].packet = k
        /\ transport[requests[k]].ok

\* a request was registered after an earlier call had failed in write
C13_Witness ==
    /\ ret.op = "execute"
    /\ ret.h \in Tracked
    /\ \E i \in DOMAIN transport : ~transport[i].ok

\* C14: a handle becomes resolved only in a _handleResponse step whose reply
\* carries the identifier under which the handle is in the registry, and it
\* is resolved with that reply.
C14_ResolvedOnlyByMatchingReply ==
    [][\A h \in DOMAIN handles' :
          (/\ handles'[h].state = "resolved"
           /\ (h \in DOMAIN handles => handles[h].state # "resolved")) =>
              /\ ret'.op = "_handleResponse"
              /\ h \in DOMAIN handles
              /\ ret'.arg.transaction_id = issued[h]
              /\ issued[h] \in DOMAIN requests
              /\ requests[issued[h]] = h
              /\ handles'[h].result = ret'.arg]_vars

\* a reply resolved one handle while another stayed pending and a third had
\* failed
C14_Witness ==
    /\ ret.op = "_handleResponse"
    /\ ret.h # 0
    /\ handles[ret.h].state = "resolved"
    /\ \E h \in DOMAIN handles : handles[h].state = "pending"
    /\ \E h \in DOMAIN handles : handles[h].state = "failed"

\* C15: a pending handle in the registry stays pending, and its identifier
\* stays in the registry, through every step that is neither a disconnect nor
\* the dispatch of a reply with its identifier.
C15_NoTimeout ==
    [][\A h \in DOMAIN handles :
          (/\ handles[h].state = "pending"
           /\ issued[h] \in DOMAIN requests
           /\ requests[issued[h]] = h
           /\ ret'.op # "connectionLost"
           /\ ~(ret'.op = "_handleResponse" /\ ret'.arg.truthy
                  /\ ret'.arg.transaction_id = issued[h])) =>
              /\ handles'[h].state = "pending"
              /\ issued[h] \in DOMAIN requests']_vars

\* the first request is still pending and registered after a later request
\* was made and answered
C15_Witness ==
    /\ ret.op = "_handleResponse"
    /\ ret.h > 1
    /\ Len(handles) = MaxExec
    /\ handles[1].state = "pending"
    /\ issued[1] \in DOMAIN requests
    /\ requests[issued[1]] = 1

\* C16 as stated: once a disconnect has failed a request of the session, the
\* connected flag is never true again.
C16_DisconnectIsTerminal ==
    [][((~connected) /\ \E h \in DOMAIN handles : handles[h].result = LostFailure)
          => ~connected']_vars

\* C16 amended: while the flag is false only connectionMade sets it to true,
\* and every execute that returns meanwhile returns the not-connected failure.
C16_OnlyConnectionMadeReconnects ==
    [][((~connected) /\ ret'.op # "connectionMade") =>
          /\ ~connected'
          /\ (ret'.op = "execute" /\ ret'.raised = None) =>
                 handles'[ret'.h] = fail(NotConnectedFailure)]_vars

\* after a disconnect an execute took the not-connected path, then the
\* session was connected again
C16_Witness ==
    /\ ret.op = "connectionMade"
    /\ connected
    /\ \E h \in DOMAIN handles : handles[h].result = LostFailure
    /\ \E h \in DOMAIN handles : handles[h].result = NotConnectedFailure

\* C17: _handleResponse with a falsy reply, or with an empty registry, raises
\* nothing and leaves the registry, the connected flag and every handle as
\* they are.
C17_FalsyReplyOrEmptyRegistry ==
    [][(/\ ret'.op = "_handleResponse"
        /\ (~ret'.arg.truthy \/ DOMAIN requests = {})) =>
           /\ ret'.raised = None
           /\ requests' = requests
           /\ handles' = handles
           /\ connected' = connected]_vars

\* a falsy reply was dispatched while a request was pending
C17_Witness ==
    /\ ret.op = "_handleResponse"
    /\ ~ret.arg.truthy
    /\ DOMAIN requests # {}

\* C18: execute never replaces a registry entry whose handle is pending.
C18_InsertKeepsPendingEntries ==
    [][ret'.op = "execute" =>
          \A k \in DOMAIN requests :
             handles[requests[k]].state = "pending" =>
                 (k \in DOMAIN requests' /\ requests'[k] = requests[k])]_vars

\* C19: an execute that ends on the not-connected path leaves the registry and
\* the manager's counter as they were.
C19_NotConnectedChangesNothing ==
    [][(ret'.op = "execute" /\ ~connected /\ ret'.raised = None) =>
          /\ requests' = requests
          /\ tid' = tid]_vars

\* the i-th request of the datagram session was handed to the transport and
\* its caller has had neither a reply nor a failure
UdpOutstanding(i) ==
    /\ udp.writes[i].ok
    /\ udp.handles[i].state \notin {"resolved", "failed"}

\* C11: a datagram session is made with an empty registry, and every execute
\* on it whose write returns draws the next identifier, writes the packet and
\* returns a pending handle stored in the registry under that identifier.
C11_UdpExecuteRegisters ==
    [][/\ ret'.op = "udp.__init__" =>
              /\ ret'.raised = None
              /\ udp'.made
              /\ udp'.requests = <<>>
       /\ (ret'.op = "udp.execute" /\ udp'.writes[ret'.h].ok) =>
              /\ ret'.raised = None
              /\ udp'.issued[ret'.h] = getNextTID(tid)
              /\ udp'.writes[ret'.h].packet = udp'.issued[ret'.h]
              /\ udp'.handles[ret'.h] = Deferred
              /\ udp'.issued[ret'.h] < Len(udp'.requests)
              /\ udp'.requests[udp'.issued[ret'.h] + 1] = ret'.h]_vars

\* C12: with several requests outstanding on a datagram session, a datagram
\* decoding to a reply with the identifier of one of them resolves that
\* request's handle with the reply, whatever the source address, and leaves
\* the other handles as they are.
C12_UdpReplyResolvesItsHandle ==
    [][(/\ ret'.op = "udp.datagramReceived"
        /\ ret'.arg.truthy
        /\ Cardinality({i \in DOMAIN udp.handles : UdpOutstanding(i)}) >= 2
        /\ \E i \in DOMAIN udp.handles :
              UdpOutstanding(i) /\ udp.issued[i] = ret'.arg.transaction_id) =>
           \A i \in DOMAIN udp.handles :
              IF UdpOutstanding(i) /\ udp.issued[i] = ret'.arg.transaction_id
                THEN udp'.handles[i] = callback(Deferred, ret'.arg)
                ELSE udp'.handles[i] = udp.handles[i]]_vars

====
